---- MODULE Spec2Model ----
(***************************************************************************)
(* A model of i.landsat.import (src/i.landsat.import.py): the filename     *)
(* classifier get_name_band, the band ordering of import_geotiffs, and the *)
(* batch driver main with the per-scene importer import_geotiffs.          *)
(*                                                                         *)
(* Python strings are sequences of one-character strings, so that split,   *)
(* partition, splitext, substring tests and int() are computed, not        *)
(* assumed.                                                                *)
(***************************************************************************)
EXTENDS Integers, Sequences, FiniteSets, TLC

VARIABLES
    cl,             \* classifier harness: two scene paths, a filename, results
    so,             \* ordering harness: a directory listing and its sorted form
    flags,          \* grass.parser() flags
    options,        \* grass.parser() options
    pc,             \* position of main / import_geotiffs
    err,            \* the exception or grass.fatal that ended the run
    loop,           \* which loop of main is running: none, pool or scene
    queue,          \* landsat_scenes still to be iterated by the current loop
    scene,          \* landsat_scene of the running import_geotiffs call
    mapset,         \* import_geotiffs' local variable mapset
    timestamp,      \* import_geotiffs' local variable timestamp
    todo,           \* filenames the for loop has still to visit
    current_mapset, \* the GRASS session's current Mapset ('.')
    mapsets,        \* Mapsets that exist in the GRASS data base
    rasters,        \* raster maps of the data base
    cell_misc,      \* files under <mapset>/cell_misc
    dirs,           \* scene directories on disk
    disk,           \* the layout of the file system the run started from
    log             \* collaborator calls made so far, in order

vars == <<cl, so, disk, flags, options, pc, err, loop, queue, scene, mapset,
          timestamp, todo, current_mapset, mapsets, rasters, cell_misc, dirs,
          log>>

mainVars == <<disk, flags, options, pc, err, loop, queue, scene, mapset,
              timestamp, todo, current_mapset, mapsets, rasters, cell_misc,
              dirs, log>>

-----------------------------------------------------------------------------
(* Python str primitives *)

\* the characters the model uses, in ASCII order
Alphabet ==
    <<" ", "\"", "+", ",", "-", ".", "/",
      "0", "1", "2", "3", "4", "5", "6", "7", "8", "9", ":", "=",
      "A", "B", "C", "D", "E", "F", "G", "H", "I", "J", "K", "L", "M",
      "N", "O", "P", "Q", "R", "S", "T", "U", "V", "W", "X", "Y", "Z",
      "_",
      "a", "b", "c", "d", "e", "f", "g", "h", "i", "j", "k", "l", "m",
      "n", "o", "p", "q", "r", "s", "t", "u", "v", "w", "x", "y", "z">>

Ord(c) == CHOOSE i \in 1..Len(Alphabet) : Alphabet[i] = c

DigitChars == <<"0", "1", "2", "3", "4", "5", "6", "7", "8", "9">>

IsDigitChar(c) == \E i \in 1..Len(DigitChars) : DigitChars[i] = c

DigitValue(c) == (CHOOSE i \in 1..Len(DigitChars) : DigitChars[i] = c) - 1

\* str.isdigit(): non-empty and every character a digit
IsDigit(s) == Len(s) > 0 /\ \A i \in 1..Len(s) : IsDigitChar(s[i])

\* int(s) for a string of digits; callers test IsDigit first (else ValueError)
RECURSIVE IntOf(_)
IntOf(s) ==
    IF s = <<>> THEN 0
    ELSE 10 * IntOf(SubSeq(s, 1, Len(s) - 1)) + DigitValue(s[Len(s)])

\* s1 < s2 as Python compares str: lexicographic by code point
RECURSIVE StrLess(_, _)
StrLess(s1, s2) ==
    IF s2 = <<>> THEN FALSE
    ELSE IF s1 = <<>> THEN TRUE
    ELSE IF Ord(s1[1]) # Ord(s2[1]) THEN Ord(s1[1]) < Ord(s2[1])
    ELSE StrLess(Tail(s1), Tail(s2))

\* first index at which sub occurs in s, 0 if none (s.find(sub) + 1)
Find(sub, s) ==
    LET hits == {i \in 1..(Len(s) - Len(sub) + 1) :
                    SubSeq(s, i, i + Len(sub) - 1) = sub}
    IN  IF hits = {} THEN 0 ELSE CHOOSE i \in hits : \A j \in hits : i <= j

\* last index at which the character c occurs in s, 0 if none
RFindChar(c, s) ==
    LET hits == {i \in 1..Len(s) : s[i] = c}
    IN  IF hits = {} THEN 0 ELSE CHOOSE i \in hits : \A j \in hits : i >= j

\* sub in s
Contains(sub, s) == Find(sub, s) # 0

\* s.split(c) for a one-character separator: a sequence of strings
RECURSIVE Split(_, _)
Split(s, c) ==
    LET i == Find(<<c>>, s)
    IN  IF i = 0 THEN <<s>>
        ELSE <<SubSeq(s, 1, i - 1)>> \o Split(SubSeq(s, i + 1, Len(s)), c)

\* "".join(parts)
RECURSIVE Join(_)
Join(parts) == IF parts = <<>> THEN <<>> ELSE Head(parts) \o Join(Tail(parts))

\* sep.join(parts)
RECURSIVE JoinWith(_, _)
JoinWith(sep, parts) ==
    IF parts = <<>> THEN <<>>
    ELSE IF Len(parts) = 1 THEN parts[1]
    ELSE parts[1] \o sep \o JoinWith(sep, Tail(parts))

\* parts[1::2]: the odd-indexed elements (Python indices 1, 3, 5, ...)
OddIndexed(parts) == [k \in 1..(Len(parts) \div 2) |-> parts[2 * k]]

\* s.partition(sep)[2]: what follows the first sep, '' if there is none
AfterFirst(s, sep) ==
    LET i == Find(sep, s)
    IN  IF i = 0 THEN <<>> ELSE SubSeq(s, i + Len(sep), Len(s))

\* s.partition(sep)[0]: what precedes the first sep, s if there is none
BeforeFirst(s, sep) ==
    LET i == Find(sep, s)
    IN  IF i = 0 THEN s ELSE SubSeq(s, 1, i - 1)

\* os.path.basename(p)
Basename(p) == SubSeq(p, RFindChar("/", p) + 1, Len(p))

\* os.path.join(a, b) for a relative b
PathJoin(a, b) ==
    IF a = <<>> \/ a[Len(a)] = "/" THEN a \o b ELSE a \o <<"/">> \o b

\* index of the dot that os.path.splitext splits at, 0 if none: the last dot
\* of the last path component, unless only dots precede it in that component
SplitextDot(p) ==
    LET slash == RFindChar("/", p)
        dot   == RFindChar(".", p)
    IN  IF dot > slash /\ \E k \in (slash + 1)..(dot - 1) : p[k] # "."
        THEN dot ELSE 0

\* os.path.splitext(p)[0]
SplitextRoot(p) ==
    IF SplitextDot(p) = 0 THEN p ELSE SubSeq(p, 1, SplitextDot(p) - 1)

\* os.path.splitext(p)[-1]
SplitextExt(p) ==
    IF SplitextDot(p) = 0 THEN <<>> ELSE SubSeq(p, SplitextDot(p), Len(p))

-----------------------------------------------------------------------------
(* Program constants (globals, lines 185-207) *)

GEOTIFF_EXTENSION == <<".", "T", "I", "F">>
IMAGE_QUALITY_STRINGS == <<<<"Q", "A">>, <<"V", "C", "I", "D">>>>
QA_STRING == <<"Q", "A">>
MTL_STRING == <<"M", "T", "L">>
ZERO_TIMEZONE == <<"+", "0", "0", "0", "0">>

\* a band label: the integer n, or the string s
IntBand(n) == [int |-> TRUE, n |-> n, s |-> <<>>]
StrBand(s) == [int |-> FALSE, n |-> 0, s |-> s]

\* int(x) inside get_name_band: a result, or ValueError for a non-number
\* (the filenames of the model hold no sign and no blank, which int() accepts)
NameBandInt(name, x) ==
    IF IsDigit(x)
    THEN [outcome |-> "ok", name |-> name, band |-> IntBand(IntOf(x))]
    ELSE [outcome |-> "ValueError", name |-> name, band |-> StrBand(<<>>)]

\* lines 270-275: the name of the raster map, before any scene prefix
BandName(absolute_filename, filename) ==
    IF \E i \in 1..Len(IMAGE_QUALITY_STRINGS) :
          Contains(IMAGE_QUALITY_STRINGS[i], absolute_filename)
    THEN Join(OddIndexed(Split(SplitextRoot(absolute_filename), "_")))
    ELSE Split(SplitextRoot(filename), "_")[Len(Split(SplitextRoot(filename), "_"))]

\* name[i:j] of Python for 0 <= i <= j
Slice(name, i, j) ==
    IF i >= Len(name) THEN <<>>
    ELSE SubSeq(name, i + 1, IF j > Len(name) THEN Len(name) ELSE j)

\* name[-1:] of Python
LastChar(name) == IF name = <<>> THEN <<>> ELSE <<name[Len(name)]>>

\* lines 278-301: the band of a name; outcome "fatal" is grass.fatal
\* (a misnamed MTL file), "ValueError" is int() raising
BandOf(absolute_filename, name) ==
    IF Contains(MTL_STRING, absolute_filename)
    THEN [outcome |-> "fatal", name |-> name, band |-> StrBand(<<>>)]
    ELSE IF Contains(QA_STRING, absolute_filename)
    THEN [outcome |-> "ok", name |-> name, band |-> StrBand(name)]
    ELSE IF Len(name) = 3 /\ name[1] = "B" /\ name[3] = "0"
    THEN NameBandInt(name, Slice(name, 1, 3))
    ELSE IF Len(name) = 3 /\ name[3] = "0"
    THEN NameBandInt(name, Slice(name, 1, 2))
    ELSE IF Len(name) = 3 /\ name[3] # "0"
    THEN NameBandInt(name, Slice(name, 1, 3))
    ELSE NameBandInt(name, LastChar(name))

\* the prefix of lines 304-305
Prefixed_NoPrefix(r, scene_path, one_mapset) == r

Prefixed(r, scene_path, one_mapset) ==
    IF r.outcome = "ok" /\ one_mapset
    THEN [r EXCEPT !.name = Basename(scene_path) \o <<"_">> \o r.name]
    ELSE r

\* get_name_band(scene, filename), one_mapset being the global it reads
get_name_band(scene_path, filename, one_mapset) ==
    Prefixed(BandOf(PathJoin(scene_path, filename),
                    BandName(PathJoin(scene_path, filename), filename)),
             scene_path, one_mapset)

-----------------------------------------------------------------------------
(* Band ordering (import_geotiffs, lines 517-520) *)

\* SortKey without the band number: a plain sort by filename
SortKey_ByName(item) == [inf |-> TRUE, n |-> 0, item |-> item]

\* the sort key of lines 518-520: (int(digits) or float('inf'), item), where
\* digits is what stands between the first '_B' and the next '.'
SortKey(item) ==
    LET x == BeforeFirst(AfterFirst(item, <<"_", "B">>), <<".">>)
    IN  IF IsDigit(x) THEN [inf |-> FALSE, n |-> IntOf(x), item |-> item]
        ELSE [inf |-> TRUE, n |-> 0, item |-> item]

\* k1 < k2 as Python compares the key tuples
KeyLess(k1, k2) ==
    IF k1.inf /\ k2.inf THEN StrLess(k1.item, k2.item)
    ELSE IF k1.inf THEN FALSE
    ELSE IF k2.inf THEN TRUE
    ELSE IF k1.n # k2.n THEN k1.n < k2.n
    ELSE StrLess(k1.item, k2.item)

\* x placed into the sorted sequence s behind every element not greater
RECURSIVE InsertByKey(_, _)
InsertByKey(x, s) ==
    IF s = <<>> THEN <<x>>
    ELSE IF KeyLess(SortKey(x), SortKey(Head(s))) THEN <<x>> \o s
    ELSE <<Head(s)>> \o InsertByKey(x, Tail(s))

\* sorted(listing, key=...): a stable sort
RECURSIVE sorted(_)
sorted(listing) ==
    IF listing = <<>> THEN <<>>
    ELSE InsertByKey(listing[Len(listing)],
                     sorted(SubSeq(listing, 1, Len(listing) - 1)))

\* the orders in which os.listdir may return the set of names S
RECURSIVE Listings(_)
Listings(S) ==
    IF S = {} THEN {<<>>}
    ELSE UNION {{<<x>> \o l : l \in Listings(S \ {x})} : x \in S}

-----------------------------------------------------------------------------
(* Manifest parsing and timestamp rendering (lines 369-487) *)

DATE_STRINGS ==
    <<<<"D", "A", "T", "E", "_", "A", "C", "Q", "U", "I", "R", "E", "D">>,
      <<"A", "C", "Q", "U", "I", "S", "I", "T", "I", "O", "N", "_",
        "D", "A", "T", "E">>>>

TIME_STRINGS ==
    <<<<"S", "C", "E", "N", "E", "_", "C", "E", "N", "T", "E", "R", "_",
        "T", "I", "M", "E">>,
      <<"S", "C", "E", "N", "E", "_", "C", "E", "N", "T", "E", "R", "_",
        "S", "C", "A", "N", "_", "T", "I", "M", "E">>>>

\* MONTHS[month], <<>> standing for KeyError
MONTHS(month) ==
    CASE month = <<"0", "1">> -> <<"j", "a", "n">>
      [] month = <<"0", "2">> -> <<"f", "e", "b">>
      [] month = <<"0", "3">> -> <<"m", "a", "r">>
      [] month = <<"0", "4">> -> <<"a", "p", "r">>
      [] month = <<"0", "5">> -> <<"m", "a", "y">>
      [] month = <<"0", "6">> -> <<"j", "u", "n">>
      [] month = <<"0", "7">> -> <<"j", "u", "l">>
      [] month = <<"0", "8">> -> <<"a", "u", "g">>
      [] month = <<"0", "9">> -> <<"s", "e", "p">>
      [] month = <<"1", "0">> -> <<"o", "c", "t">>
      [] month = <<"1", "1">> -> <<"n", "o", "v">>
      [] month = <<"1", "2">> -> <<"d", "e", "c">>
      [] OTHER -> <<>>

\* s.strip() of blanks
RECURSIVE Strip(_)
Strip(s) ==
    IF s = <<>> THEN s
    ELSE IF s[1] = " " THEN Strip(Tail(s))
    ELSE IF s[Len(s)] = " " THEN Strip(SubSeq(s, 1, Len(s) - 1))
    ELSE s

\* s with every occurrence of the character c deleted
Without(s, c) == Join([i \in 1..Len(s) |-> IF s[i] = c THEN <<>> ELSE <<s[i]>>])

\* s.zfill(n) for an unsigned s
RECURSIVE ZFill(_, _)
ZFill(s, n) == IF Len(s) >= n THEN s ELSE ZFill(<<"0">> \o s, n)

\* str(n) for a natural number n
RECURSIVE StrOfNat(_)
StrOfNat(n) ==
    IF n < 10 THEN <<DigitChars[n + 1]>>
    ELSE StrOfNat(n \div 10) \o <<DigitChars[(n % 10) + 1]>>

\* the empty dict() of line 394, with the exception that ended the parse
EmptyDateTime ==
    [str |-> FALSE, text |-> <<>>, error |-> "none", keys |-> {},
     date |-> <<>>, hours |-> <<>>, minutes |-> <<>>, seconds |-> <<>>,
     timezone |-> <<>>]

\* lines 405-407: the date of a line holding a date key
DateOfLine(dt, line) ==
    LET parts == Split(Strip(line), "=")
    IN  IF Len(parts) < 2 THEN [dt EXCEPT !.error = "IndexError"]
        ELSE [dt EXCEPT !.date = Strip(parts[2]),
                        !.keys = @ \cup {"date"}]

\* add_leading_zeroes(real_number, n), lines 369-375; <<>> is IndexError
add_leading_zeroes(real_number, n) ==
    LET bits == Split(real_number, ".")
    IN  IF Len(bits) < 2 THEN <<>>
        ELSE ZFill(bits[1], n) \o <<".">> \o bits[2]

\* lines 410-426: timezone, hours, minutes, seconds of a line holding a time key
TimeOfLine(dt, line0) ==
    LET line  == Without(line0, "\"")
        endsZ == line # <<>> /\ line[Len(line)] = "Z"
        d1    == IF endsZ
                 THEN [dt EXCEPT !.timezone = ZERO_TIMEZONE,
                                 !.keys = @ \cup {"timezone"}]
                 ELSE dt
        parts == Split(Strip(line), "=")
        time  == Split(Without(Strip(parts[2]), "Z"), ":")
    IN  IF Len(parts) < 2 THEN [d1 EXCEPT !.error = "IndexError"]
        ELSE IF ~IsDigit(Strip(time[1])) THEN [d1 EXCEPT !.error = "ValueError"]
        ELSE IF Len(time) < 2 THEN
            [d1 EXCEPT !.error = "IndexError",
                       !.hours = ZFill(StrOfNat(IntOf(Strip(time[1]))), 2),
                       !.keys = @ \cup {"hours"}]
        ELSE IF ~IsDigit(Strip(time[2])) THEN
            [d1 EXCEPT !.error = "ValueError",
                       !.hours = ZFill(StrOfNat(IntOf(Strip(time[1]))), 2),
                       !.keys = @ \cup {"hours"}]
        ELSE IF Len(time) < 3 \/ add_leading_zeroes(time[3], 2) = <<>> THEN
            [d1 EXCEPT !.error = "IndexError",
                       !.hours = ZFill(StrOfNat(IntOf(Strip(time[1]))), 2),
                       !.minutes = ZFill(StrOfNat(IntOf(Strip(time[2]))), 2),
                       !.keys = @ \cup {"hours", "minutes"}]
        ELSE
            [d1 EXCEPT !.hours = ZFill(StrOfNat(IntOf(Strip(time[1]))), 2),
                       !.minutes = ZFill(StrOfNat(IntOf(Strip(time[2]))), 2),
                       !.seconds = add_leading_zeroes(time[3], 2),
                       !.keys = @ \cup {"hours", "minutes", "seconds"}]

HasKey(keyset, line) == \E i \in 1..Len(keyset) : Contains(keyset[i], line)

\* the loop of lines 399-426 over the manifest's lines; an exception ends it
RECURSIVE ReadLines(_, _)
ReadLines(dt, lines) ==
    IF lines = <<>> \/ dt.error # "none" THEN dt
    ELSE LET line == Head(lines)
             d1 == IF Len(line) # 0 /\ HasKey(DATE_STRINGS, line)
                   THEN DateOfLine(dt, line) ELSE dt
             d2 == IF Len(line) # 0 /\ d1.error = "none"
                      /\ HasKey(TIME_STRINGS, line)
                   THEN TimeOfLine(d1, line) ELSE d1
         IN  ReadLines(d2, Tail(lines))

\* RenderTimestamp with the date left in the order of the manifest
RenderTimestamp_YearFirst(ts) ==
    [error |-> "none",
     text |-> IF ts.str THEN ts.text
              ELSE JoinWith(<<" ">>,
                      <<ts.date,
                        JoinWith(<<":">>, <<ts.hours, ts.minutes, ts.seconds>>)>>)]

\* the render of set_timestamp, lines 461-483: the string handed to
\* r.timestamp, or the exception raised on the way
RenderTimestamp(ts) ==
    LET ymd == Split(ts.date, "-")
    IN  IF ts.str THEN [error |-> "none", text |-> ts.text]
        ELSE IF ~Contains(<<"-">>, ts.date)
        THEN [error |-> "UnboundLocalError", text |-> <<>>]
        ELSE IF Len(ymd) # 3 THEN [error |-> "ValueError", text |-> <<>>]
        ELSE IF MONTHS(ymd[2]) = <<>> THEN [error |-> "KeyError", text |-> <<>>]
        ELSE [error |-> "none",
              text |-> JoinWith(<<" ">>,
                          <<JoinWith(<<" ">>, <<ymd[3], MONTHS(ymd[2]), ymd[1]>>),
                            JoinWith(<<":">>,
                                     <<ts.hours, ts.minutes, ts.seconds>>)>>)]

-----------------------------------------------------------------------------
(* The disk and the GRASS data base the runs start from *)

\* the longest list of explicit scenes a run is given
MaxScenes == 2

PoolDir == <<"/", "p">>
SceneA  == <<"/", "p", "/", "a">>
SceneB  == <<"/", "p", "/", "b">>
SceneDirs == {SceneA, SceneB}

\* a directory inside the scene directory SceneA
NestedDir == <<"/", "p", "/", "a", "/", "g">>

\* an archive of a scene c, and the string the test of line 658 looks for
ArchiveC == <<"/", "p", "/", "c", ".", "t", "a", "r", ".", "g", "z">>
TarGz    == <<"t", "a", "r", ".", "g", "z">>
DotTarGz == <<".">> \o TarGz

\* the layouts of the file system a run may start from: the two scenes as
\* they should be; the manifest of SceneA without its date line, without
\* its time line, or with a time that has no Z; a directory nested in
\* SceneA; SceneB without image files; the archive of a third scene, the
\* process working in another directory or in the pool
Disks ==
    {"plain", "nodate", "notime", "nozone", "nested", "nobands",
     "archive", "archive in cwd"}

HasArchive == disk \in {"archive", "archive in cwd"}

\* os.getcwd()
Cwd == IF disk = "archive in cwd" THEN PoolDir ELSE <<"/", "w">>

\* the absolute path the operating system resolves a path to
Resolve(path) ==
    IF path # <<>> /\ path[1] = "/" THEN path ELSE PathJoin(Cwd, path)

\* the .tar.gz files on disk
Archives == IF HasArchive THEN {ArchiveC} ELSE {}

\* tgz_base of line 250, and the directory extract_tgz unpacks into
TgzBase(tgz) == BeforeFirst(Basename(tgz), DotTarGz)

\* the session's Mapset at start (MAPSET, line 204) and the mapset= option
MAPSET == <<"u">>
SharedMapset == <<"m">>

\* the files of the two scenes as they should be
SceneFiles(d) ==
    IF d = SceneA
    THEN {<<"a", "_", "B", "2", ".", "T", "I", "F">>,
          <<"a", "_", "B", "Q", "A", ".", "T", "I", "F">>,
          <<"a", "_", "M", "T", "L", ".", "t", "x", "t">>}
    ELSE IF d = SceneB
    THEN {<<"b", "_", "B", "2", ".", "T", "I", "F">>,
          <<"b", "_", "M", "T", "L", ".", "t", "x", "t">>}
    ELSE {}

\* what os.listdir(d) holds
DirFiles(d) ==
    IF d = SceneA
    THEN SceneFiles(d) \cup (IF disk = "nested" THEN {<<"g">>} ELSE {})
    ELSE IF d = SceneB
    THEN IF disk = "nobands"
         THEN {<<"b", "_", "M", "T", "L", ".", "t", "x", "t">>}
         ELSE SceneFiles(d)
    ELSE IF HasArchive /\ d = Resolve(TgzBase(ArchiveC))
    THEN {<<"c", "_", "B", "1", ".", "T", "I", "F">>,
          <<"c", "_", "M", "T", "L", ".", "t", "x", "t">>}
    ELSE {}

\* the date line and the time line of a scene's manifest
DateLine(d) ==
    <<" ", " ", "D", "A", "T", "E", "_", "A", "C", "Q", "U", "I", "R", "E",
      "D", " ", "=", " ", "2", "0", "1", "8", "-", "0", "1", "-", "0",
      IF d = SceneA THEN "1" ELSE "2">>

TimeLine(d) ==
    <<" ", " ", "S", "C", "E", "N", "E", "_", "C", "E", "N", "T", "E", "R",
      "_", "T", "I", "M", "E", " ", "=", " ", "\"", "1", "0", ":", "1", "1",
      ":", "1", "2", ".", "5">>
        \o (IF d = SceneA /\ disk = "nozone" THEN <<>> ELSE <<"Z">>)
        \o <<"\"">>

\* the text of a scene's manifest, line by line
ManifestLines(d) ==
    <<<<"G", "R", "O", "U", "P", " ", "=", " ", "L", "1">>, <<>>>>
        \o (IF d = SceneA /\ disk = "nodate" THEN <<>> ELSE <<DateLine(d)>>)
        \o (IF d = SceneA /\ disk = "notime" THEN <<>> ELSE <<TimeLine(d)>>)

\* the immediate and deeper subdirectories os.walk(pool) yields after the
\* pool itself, among the directories that exist
PoolSubdirs(pool, existing) ==
    {d \in existing : Len(d) > Len(pool) + 1
                      /\ SubSeq(d, 1, Len(pool) + 1) = pool \o <<"/">>}

\* what a scene= option may name: the scene directories, and where there is
\* an archive, SceneA, the archive and the string tar.gz
Sources == IF HasArchive THEN {SceneA, ArchiveC, TarGz} ELSE SceneDirs

\* the scene= option strings: up to MaxScenes sources, comma-joined
RECURSIVE SceneLists(_)
SceneLists(n) ==
    IF n = 0 THEN {<<>>}
    ELSE SceneLists(n - 1)
         \cup {l \o <<d>> : l \in {x \in SceneLists(n - 1) : Len(x) = n - 1},
                            d \in Sources}

SceneOptions == {JoinWith(<<",">>, l) : l \in SceneLists(MaxScenes)}

\* the Mapset a scene lands in, and the raster names its GeoTIFFs get
TargetMapset(d, one_mapset) == IF one_mapset THEN SharedMapset ELSE Basename(d)

IsGeoTiff(filename) == SplitextExt(filename) = GEOTIFF_EXTENSION

\* the image files of a scene as it should be
GeoTiffs(d) == {x \in SceneFiles(d) : IsGeoTiff(x)}

\* the rasters an earlier run made of a scene
SceneRasters(d, one_mapset) ==
    {[ws |-> TargetMapset(d, one_mapset),
      name |-> get_name_band(d, f, one_mapset).name,
      src |-> <<"o", "l", "d">>] : f \in GeoTiffs(d)}

\* the first GeoTIFF of a scene in band order
FirstRaster(d, one_mapset) ==
    LET f == sorted(CHOOSE l \in Listings(GeoTiffs(d)) : TRUE)[1]
    IN  [ws |-> TargetMapset(d, one_mapset),
         name |-> get_name_band(d, f, one_mapset).name,
         src |-> <<"o", "l", "d">>]

\* what an earlier run may have left in the data base
PriorKinds == {"none", "first", "all+mtl"}

PriorRasters(kind, one_mapset) ==
    LET all   == UNION {SceneRasters(d, one_mapset) : d \in SceneDirs}
        first == {FirstRaster(d, one_mapset) : d \in SceneDirs}
    IN  CASE kind = "none"  -> {}
          [] kind = "first" -> first
          [] OTHER          -> all

MetafileName(d) ==
    CHOOSE f \in SceneFiles(d) :
        Len(f) >= 7 /\ SubSeq(f, Len(f) - 6, Len(f)) =
                          <<"M", "T", "L", ".", "t", "x", "t">>

PriorCellMisc(kind, one_mapset) ==
    IF kind = "all+mtl"
    THEN {[ws |-> TargetMapset(d, one_mapset), file |-> MetafileName(d),
           src |-> <<"o", "l", "d">>] : d \in SceneDirs}
    ELSE {}

-----------------------------------------------------------------------------
(* main and import_geotiffs *)

ExplicitTimestamp ==
    <<"2", "0", "1", "8", "-", "0", "1", "-", "0", "1", " ",
      "1", "0", ":", "1", "1", ":", "1", "2", " ", "+", "0", "0", "0", "0">>

\* a band= option: band 2 alone
BandOption == <<"2">>

\* the flag sets grass.parser() lets through (rules of lines 78-139)
FlagSets ==
    {f \in [e : BOOLEAN, c : BOOLEAN, s : BOOLEAN, r : BOOLEAN, l : BOOLEAN,
            t : BOOLEAN, f : BOOLEAN, n : BOOLEAN, one : BOOLEAN] :
        ~(f.t /\ f.l)}

OptionSets(f) ==
    {o \in [scene : SceneOptions, pool : {<<>>, PoolDir},
            timestamp : {<<>>, ExplicitTimestamp},
            mapset : {<<>>, SharedMapset}, band : {<<>>, BandOption}] :
        /\ f.r => o.scene # <<>>
        /\ f.n => o.pool # <<>>
        /\ f.one <=> o.mapset # <<>>}

\* no harness is running
HarnessIdle == cl = [pc |-> "off"] /\ so = [pc |-> "off"]

\* the state main starts in, for a disk of ds, flags of fs, a timestamp=
\* option of ts and a band= option of bs
InitMainWith(ds, fs, ts, bs) ==
    /\ disk \in ds
    /\ flags \in fs
    /\ options \in {o \in OptionSets(flags) :
                       o.timestamp \in ts /\ o.band \in bs}
    /\ pc = "main"
    /\ err = "none"
    /\ loop = "none"
    /\ queue = <<>>
    /\ scene = <<>>
    /\ mapset = <<>>
    /\ timestamp = EmptyDateTime
    /\ todo = <<>>
    /\ current_mapset = MAPSET
    /\ \E kind \in PriorKinds :
          /\ rasters = PriorRasters(kind, flags.one)
          /\ cell_misc = PriorCellMisc(kind, flags.one)
          /\ mapsets = {MAPSET} \cup {r.ws : r \in PriorRasters(kind, flags.one)}
    /\ dirs = SceneDirs \cup (IF disk = "nested" THEN {NestedDir} ELSE {})
    /\ log = <<>>

InitMain ==
    InitMainWith(Disks, FlagSets, {<<>>, ExplicitTimestamp}, {<<>>, BandOption})

Init == HarnessIdle /\ InitMain

\* one collaborator call
Call(op, ws, name, arg) == [op |-> op, ws |-> ws, name |-> name, arg |-> arg]

\* an uncaught exception or grass.fatal ends the process
Crash(e) == pc' = "crashed" /\ err' = e

\* the directory d is the directory root or lies below it
Under(d, root) ==
    \/ d = root
    \/ Len(d) > Len(root) /\ SubSeq(d, 1, Len(root) + 1) = root \o <<"/">>

\* the orders in which os.walk yields the directories of S, top down: a
\* directory before those below it, which follow it without a gap
WalkOrders(S) ==
    {l \in Listings(S) :
        \A i \in 1..Len(l) : \A j \in 1..Len(l) :
            (i # j /\ Under(l[j], l[i])) =>
                /\ i < j
                /\ \A k \in i..j : Under(l[k], l[i])}

\* the message of lines 644-646: 'Number of scenes in pool: {n}'
CountMessage(n) == Call("g.message", <<>>, <<"n">>, StrOfNat(n))

\* main, lines 600-651: flags, options, and the pool branch up to its loop
Main ==
    /\ pc = "main"
    /\ IF options.pool # <<>> /\ ~flags.n
       THEN /\ \E landsat_scenes \in WalkOrders(PoolSubdirs(options.pool, dirs)) :
                  queue' = landsat_scenes
            /\ pc' = "pool_loop"
            /\ loop' = "pool"
            /\ UNCHANGED log
       ELSE /\ queue' = <<>>
            /\ pc' = "scene_option"
            /\ loop' = "none"
            /\ log' = IF options.pool # <<>>
                      THEN log \o <<CountMessage(
                              Cardinality(PoolSubdirs(options.pool, dirs)))>>
                      ELSE log
    /\ UNCHANGED <<cl, so, disk, flags, options, err, scene, mapset, timestamp,
                   todo, current_mapset, mapsets, rasters, cell_misc, dirs>>

\* the for loop of lines 650-651
PoolNext ==
    /\ pc = "pool_loop"
    /\ IF queue = <<>>
       THEN pc' = "scene_option" /\ UNCHANGED <<queue, scene>>
       ELSE pc' = "import_geotiffs" /\ scene' = Head(queue)
            /\ queue' = Tail(queue)
    /\ UNCHANGED <<cl, so, disk, flags, options, err, loop, mapset, timestamp, todo,
                   current_mapset, mapsets, rasters, cell_misc, dirs, log>>

\* lines 654-655
SceneOption ==
    /\ pc = "scene_option"
    /\ IF options.scene # <<>>
       THEN queue' = Split(options.scene, ",") /\ pc' = "scene_loop"
            /\ loop' = "scene"
       ELSE queue' = <<>> /\ pc' = "done" /\ loop' = "none"
    /\ UNCHANGED <<cl, so, disk, flags, options, err, scene, mapset, timestamp, todo,
                   current_mapset, mapsets, rasters, cell_misc, dirs, log>>

\* 'tar.gz' in landsat_scenes, line 658: whether one of the scenes given is
\* the string tar.gz itself
TarGzListed == \E i \in 1..Len(Split(options.scene, ",")) :
                  Split(options.scene, ",")[i] = TarGz

\* the for loop of lines 657-665, up to the call of import_geotiffs, with
\* extract_tgz (lines 238-262): the archive is unpacked into the directory
\* named tgz_base, a path relative to the working directory, and
\* import_geotiffs is given the path of the archive less its .tar.gz
SceneNext ==
    /\ pc = "scene_loop"
    /\ IF queue = <<>>
       THEN pc' = "done" /\ UNCHANGED <<queue, scene, err, dirs, log>>
       ELSE IF ~TarGzListed
       THEN /\ pc' = "import_geotiffs"
            /\ scene' = Head(queue)
            /\ queue' = Tail(queue)
            /\ UNCHANGED <<err, dirs, log>>
       ELSE IF Resolve(Head(queue)) \notin Archives
       THEN Crash("IOError") /\ UNCHANGED <<queue, scene, dirs, log>>
       ELSE /\ dirs' = dirs \cup {Resolve(TgzBase(Head(queue)))}
            /\ log' = log \o <<Call("tarfile.extractall", <<>>, Head(queue),
                                    Resolve(TgzBase(Head(queue))))>>
            /\ pc' = "import_geotiffs"
            /\ scene' = BeforeFirst(Head(queue), DotTarGz)
            /\ queue' = Tail(queue)
            /\ UNCHANGED err
    /\ UNCHANGED <<cl, so, disk, flags, options, loop, mapset, timestamp, todo,
                   current_mapset, mapsets, rasters, cell_misc>>

\* os.listdir(d) / glob under d
ListDir(d) == IF Resolve(d) \in dirs THEN DirFiles(Resolve(d)) ELSE {}

IsMetafile(f) ==
    Len(f) >= 7 /\ SubSeq(f, Len(f) - 6, Len(f)) =
                       <<"M", "T", "L", ".", "t", "x", "t">>

\* glob.glob(scene + '/*MTL.txt'), line 313
Metafiles(d) == {f \in ListDir(d) : IsMetafile(f)}

\* get_timestamp(scene, tgis), lines 377-431
get_timestamp(d) ==
    IF options.timestamp # <<>>
    THEN [EmptyDateTime EXCEPT !.str = TRUE, !.text = options.timestamp]
    ELSE IF Metafiles(d) = {} THEN [EmptyDateTime EXCEPT !.error = "IndexError"]
    ELSE ReadLines(EmptyDateTime, ManifestLines(d))

\* the exception print_timestamp(scene, timestamp, tgis) raises on its
\* lines 436-440, "none" if it returns
print_timestamp(ts) ==
    IF ts.str THEN "TypeError"
    ELSE IF {"date", "hours", "minutes", "seconds", "timezone"} \subseteq ts.keys
    THEN "none"
    ELSE "KeyError"

\* the record print_timestamp emits with flag t, line 452:
\* '{s}<Suffix>|{d} {t} {tz}'
TgisMessage(s, ts) ==
    Call("g.message", <<>>, <<"t">>,
         s \o <<"<", "S", "u", "f", "f", "i", "x", ">", "|">>
           \o JoinWith(<<" ">>, <<ts.date,
                                  JoinWith(<<":">>, <<ts.hours, ts.minutes,
                                                      ts.seconds>>),
                                  ts.timezone>>))

\* import_geotiffs, lines 497-520: the timestamp, the target Mapset and the
\* sorted listing of the scene directory
ImportBegin ==
    /\ pc = "import_geotiffs"
    /\ LET ts == get_timestamp(scene)
       IN  IF ts.error # "none"
           THEN Crash(ts.error) /\ UNCHANGED <<timestamp, mapset, todo, log>>
           ELSE IF print_timestamp(ts) # "none"
           THEN Crash(print_timestamp(ts))
                /\ UNCHANGED <<timestamp, mapset, todo, log>>
           ELSE /\ timestamp' = ts
                /\ mapset' = IF ~flags.one THEN Basename(scene)
                             ELSE options.mapset
                /\ \E listing \in Listings(ListDir(scene)) :
                      todo' = sorted(listing)
                /\ pc' = "band_loop"
                /\ log' = IF flags.t
                          THEN log \o <<TgisMessage(Basename(scene), ts)>>
                          ELSE log
                /\ UNCHANGED err
    /\ UNCHANGED <<cl, so, disk, flags, options, loop, queue, scene,
                   current_mapset, mapsets, rasters, cell_misc, dirs>>

\* find_existing_band(band), lines 223-236: a look-up in the current Mapset
find_existing_band(band) ==
    \E r \in rasters : r.ws = current_mapset' /\ r.name = band

\* the raster maps after r.in.gdal / r.external wrote name in Mapset ws
Imported(ws, name, src) ==
    {r \in rasters : ~(r.ws = ws /\ r.name = name)}
        \cup {[ws |-> ws, name |-> name, src |-> src]}

\* ReportOnly with the test of flag l lost
ReportOnly_TgisOnly == flags.t

\* not any(x for x in (list_bands, tgis)), lines 507 and 543, negated
ReportOnly == flags.l \/ flags.t

\* ImportDecision restamping every existing band, whatever flag f says
ImportDecision_AlwaysRestamp(exists) ==
    IF flags.s /\ exists THEN "ForceRestamp"
    ELSE IF flags.s /\ ~exists THEN "fatal"
    ELSE "Import"

\* ImportDecision importing the bands that skip mode does not find
ImportDecision_ImportsNew(exists) ==
    IF flags.s /\ exists
    THEN IF flags.f THEN "ForceRestamp" ELSE "SkipExisting"
    ELSE "Import"

\* ImportDecision leaving existing bands alone without flag s too
ImportDecision_KeepsExisting(exists) ==
    IF exists
    THEN IF flags.f THEN "ForceRestamp" ELSE "SkipExisting"
    ELSE IF flags.s THEN "fatal"
    ELSE "Import"

\* the branch taken at lines 563-576 for a band that exists or not
ImportDecision(exists) ==
    IF flags.s /\ exists
    THEN IF flags.f THEN "ForceRestamp" ELSE "SkipExisting"
    ELSE IF flags.s /\ ~exists THEN "fatal"
    ELSE "Import"

\* one pass of the for loop of lines 521-594, for the next filename
g_mapset_NoSwitch(ms) == current_mapset

\* run('g.mapset', flags='c', mapset=ms): the Mapset the session is in
\* afterwards, where the raster modules that follow read and write
g_mapset(ms) == ms

BandStep ==
    /\ pc = "band_loop"
    /\ todo # <<>>
    /\ LET filename == Head(todo)
           nb       == get_name_band(scene, filename, flags.one)
           name     == nb.name
           absolute_filename == PathJoin(scene, filename)
           gm    == Call("g.mapset", mapset, <<>>, <<>>)
           here  == g_mapset(mapset)
           ff    == Call("g.findfile", here, name, <<>>)
           imp   == Call(IF flags.e THEN "r.external" ELSE "r.in.gdal",
                         here, name, absolute_filename)
           stamp == RenderTimestamp(timestamp)
           st    == Call("r.timestamp", here, name, stamp.text)
       IN  IF ~IsGeoTiff(filename)
           THEN /\ todo' = Tail(todo)
                /\ UNCHANGED <<pc, err, current_mapset, mapsets, rasters, log>>
           ELSE IF nb.outcome # "ok"
           THEN /\ Crash(nb.outcome)
                /\ UNCHANGED <<todo, current_mapset, mapsets, rasters, log>>
           ELSE IF ReportOnly
           THEN /\ todo' = Tail(todo)
                /\ UNCHANGED <<pc, err, current_mapset, mapsets, rasters, log>>
           ELSE \* line 561: g.mapset -c
                /\ mapsets' = mapsets \cup {mapset}
                /\ current_mapset' = here
                /\ LET decision == ImportDecision(find_existing_band(name))
                   IN  IF decision = "SkipExisting"
                       THEN /\ log' = log \o <<gm, ff>>
                            /\ todo' = Tail(todo)
                            /\ UNCHANGED <<pc, err, rasters>>
                       ELSE IF decision = "ForceRestamp"
                       THEN IF stamp.error # "none"
                            THEN /\ Crash(stamp.error)
                                 /\ log' = log \o <<gm, ff>>
                                 /\ UNCHANGED <<todo, rasters>>
                            ELSE /\ log' = log \o <<gm, ff, st>>
                                 /\ todo' = Tail(todo)
                                 /\ UNCHANGED <<pc, err, rasters>>
                       ELSE IF decision = "fatal"
                       THEN /\ Crash("fatal: skip flag")
                            /\ log' = log \o <<gm, ff, ff>>
                            /\ UNCHANGED <<todo, rasters>>
                       ELSE \E imported \in BOOLEAN :
                            IF ~imported
                            THEN /\ Crash("CalledModuleError")
                                 /\ log' = log \o <<gm, imp>>
                                 /\ UNCHANGED <<todo, rasters>>
                            ELSE /\ rasters' = Imported(here, name,
                                                        absolute_filename)
                                 /\ IF stamp.error # "none"
                                    THEN /\ Crash(stamp.error)
                                         /\ log' = log \o <<gm, imp>>
                                         /\ UNCHANGED todo
                                    ELSE /\ log' = log \o <<gm, imp, st>>
                                         /\ todo' = Tail(todo)
                                         /\ UNCHANGED <<pc, err>>
    /\ UNCHANGED <<cl, so, disk, flags, options, loop, queue, scene, mapset,
                   timestamp, cell_misc, dirs>>

\* is_mtl_in_cell_misc(mapset), lines 318-330
is_mtl_in_cell_misc(ms) ==
    \E m \in cell_misc :
        m.ws = ms /\ m.file = ms \o <<"_", "M", "T", "L", ".", "t", "x", "t">>

\* cell_misc after shutil.copy(metafile, path_to_cell_misc), line 362
Copied(ws, file, src) ==
    {m \in cell_misc : ~(m.ws = ws /\ m.file = file)}
        \cup {[ws |-> ws, file |-> file, src |-> src]}

\* whether shutil.copy is reached: line 597, then lines 344 and 353
CopiesMtl(ms) ==
    ~flags.l /\ ~flags.t /\ ~is_mtl_in_cell_misc(ms) /\ ~flags.c

\* the end of import_geotiffs, lines 596-598, with copy_mtl_in_cell_misc
\* (lines 332-367), and the return into the loop of main
ImportEnd ==
    /\ pc = "band_loop"
    /\ todo = <<>>
    /\ LET back == IF loop = "pool" THEN "pool_loop" ELSE "cleanup"
       IN  IF ~CopiesMtl(mapset)
           THEN pc' = back /\ UNCHANGED <<err, cell_misc, log>>
           ELSE IF Metafiles(scene) = {}
           THEN Crash("IndexError") /\ UNCHANGED <<cell_misc, log>>
           ELSE \E metafile \in Metafiles(scene) :
                IF mapset \notin mapsets
                THEN /\ Crash("IOError")
                     /\ log' = log \o <<Call("shutil.copy", mapset, metafile,
                                             PathJoin(scene, metafile))>>
                     /\ UNCHANGED cell_misc
                ELSE /\ cell_misc' = Copied(mapset, metafile,
                                            PathJoin(scene, metafile))
                     /\ log' = log \o <<Call("shutil.copy", mapset, metafile,
                                             PathJoin(scene, metafile))>>
                     /\ pc' = back
                     /\ UNCHANGED err
    /\ UNCHANGED <<cl, so, disk, flags, options, loop, queue, scene, mapset,
                   timestamp, todo, current_mapset, mapsets, rasters, dirs>>

\* lines 667-675: shutil.rmtree(scene) of the whole scene= option string
Cleanup ==
    /\ pc = "cleanup"
    /\ IF ~flags.r
       THEN pc' = "scene_loop" /\ UNCHANGED <<err, dirs, log>>
       ELSE /\ log' = log \o <<Call("shutil.rmtree", <<>>, options.scene, <<>>)>>
            /\ IF Resolve(options.scene) \in dirs
               THEN /\ dirs' = {d \in dirs : ~Under(d, Resolve(options.scene))}
                    /\ pc' = "scene_loop"
                    /\ UNCHANGED err
               ELSE Crash("OSError") /\ UNCHANGED dirs
    /\ UNCHANGED <<cl, so, disk, flags, options, loop, queue, scene, mapset,
                   timestamp, todo, current_mapset, mapsets, rasters, cell_misc>>

Next ==
    \/ Main
    \/ PoolNext
    \/ SceneOption
    \/ SceneNext
    \/ ImportBegin
    \/ BandStep
    \/ ImportEnd
    \/ Cleanup

Spec == Init /\ [][Next]_vars

\* the runs with flag l (list bands and exit)
InitList ==
    /\ HarnessIdle
    /\ InitMainWith({"plain"}, {f \in FlagSets : f.l},
                    {<<>>, ExplicitTimestamp}, {<<>>})

SpecList == InitList /\ [][Next]_vars

\* the runs that import: neither flag l nor flag t
InitImport ==
    /\ HarnessIdle
    /\ InitMainWith({"plain"}, {f \in FlagSets : ~f.l /\ ~f.t},
                    {<<>>, ExplicitTimestamp}, {<<>>})

\* the flags but for those of fixed, which are off
FlagsWithout(fixed) ==
    {f \in FlagSets :
        /\ "e" \in fixed => ~f.e
        /\ "c" \in fixed => ~f.c
        /\ "s" \in fixed => ~f.s
        /\ "r" \in fixed => ~f.r
        /\ "l" \in fixed => ~f.l
        /\ "t" \in fixed => ~f.t
        /\ "f" \in fixed => ~f.f
        /\ "n" \in fixed => ~f.n
        /\ "1" \in fixed => ~f.one}

\* the runs that read the manifests, whole or wanting a line
InitManifest ==
    /\ HarnessIdle
    /\ InitMainWith({"plain", "nodate", "notime", "nozone"},
                    FlagsWithout({"e", "c", "r", "n"}), {<<>>}, {<<>>})

SpecManifest == InitManifest /\ [][Next]_vars

\* the import runs, one over a scene directory that holds no band
InitTarget ==
    /\ HarnessIdle
    /\ InitMainWith({"plain", "nobands"},
                    FlagsWithout({"c", "r", "l", "t", "n"}), {<<>>}, {<<>>})

SpecTarget == InitTarget /\ [][Next]_vars

\* the runs over a pool, one with a directory nested in a scene
InitPool ==
    /\ HarnessIdle
    /\ InitMainWith({"plain", "nested"},
                    FlagsWithout({"e", "c", "s", "r", "f", "1"}),
                    {<<>>}, {<<>>})

SpecPool == InitPool /\ [][Next]_vars

\* the runs with flag t (records for t.register)
InitTgis ==
    /\ HarnessIdle
    /\ InitMainWith({"plain"},
                    {f \in FlagsWithout({"e", "c", "s", "r", "f", "n"}) : f.t},
                    {<<>>, ExplicitTimestamp}, {<<>>})

SpecTgis == InitTgis /\ [][Next]_vars

\* the runs that import with a band= option
InitBand ==
    /\ HarnessIdle
    /\ InitMainWith({"plain"},
                    FlagsWithout({"c", "s", "r", "l", "t", "f", "n"}),
                    {<<>>}, {BandOption})

SpecBand == InitBand /\ [][Next]_vars

\* the runs on a disk that holds an archive
InitArchive ==
    /\ HarnessIdle
    /\ InitMainWith({"archive", "archive in cwd"},
                    FlagsWithout({"e", "c", "s", "t", "f", "n", "1"}),
                    {<<>>}, {<<>>})

SpecArchive == InitArchive /\ [][Next]_vars

SpecImport == InitImport /\ [][Next]_vars

-----------------------------------------------------------------------------
(* get_name_band on its own: two scene directories holding the same filename *)

\* scene directories a filename may be classified under
ClassifyScenes ==
    {SceneA,
     <<"/", "d", "_", "1", "/", "a">>,
     <<"/", "Q", "A", "/", "a">>}

\* filenames: <id>_B<N>.TIF and <id>_B<N><M>.TIF for all digits, and the
\* quality, thermal and misnamed-manifest files of a Landsat scene
ClassifyFilenames ==
    {<<"a", "_", "B", DigitChars[i]>> \o GEOTIFF_EXTENSION : i \in 1..Len(DigitChars)}
    \cup {<<"a", "_", "B", DigitChars[i], DigitChars[j]>> \o GEOTIFF_EXTENSION :
             i \in 1..Len(DigitChars), j \in 1..Len(DigitChars)}
    \cup {<<"a", "_", "B", "Q", "A">> \o GEOTIFF_EXTENSION,
          <<"a", "_", "B", "6", "_", "V", "C", "I", "D", "_", "1">>
              \o GEOTIFF_EXTENSION,
          <<"a", "_", "M", "T", "L">> \o GEOTIFF_EXTENSION}

NoResult == [outcome |-> "none", name |-> <<>>, band |-> StrBand(<<>>)]

\* nothing of main is running
MainIdle ==
    /\ flags = [e |-> FALSE, c |-> FALSE, s |-> FALSE, r |-> FALSE,
                l |-> FALSE, t |-> FALSE, f |-> FALSE, n |-> FALSE,
                one |-> FALSE]
    /\ options = [scene |-> <<>>, pool |-> <<>>, timestamp |-> <<>>,
                  mapset |-> <<>>, band |-> <<>>]
    /\ disk = "plain"
    /\ pc = "off"
    /\ err = "none"
    /\ loop = "none"
    /\ queue = <<>>
    /\ scene = <<>>
    /\ mapset = <<>>
    /\ timestamp = EmptyDateTime
    /\ todo = <<>>
    /\ current_mapset = MAPSET
    /\ mapsets = {MAPSET}
    /\ rasters = {}
    /\ cell_misc = {}
    /\ dirs = SceneDirs
    /\ log = <<>>

InitClassify ==
    /\ MainIdle
    /\ so = [pc |-> "off"]
    /\ \E s1 \in ClassifyScenes, s2 \in ClassifyScenes,
          f \in ClassifyFilenames, one \in BOOLEAN :
          cl = [pc |-> "call", scene1 |-> s1, scene2 |-> s2, filename |-> f,
                one_mapset |-> one, r1 |-> NoResult, r2 |-> NoResult,
                flipped |-> NoResult]

\* the same filename classified under scene1 and under scene2, and under
\* scene1 with the other value of one_mapset
Classify ==
    /\ cl.pc = "call"
    /\ cl' = [cl EXCEPT
                !.pc = "returned",
                !.r1 = get_name_band(cl.scene1, cl.filename, cl.one_mapset),
                !.r2 = get_name_band(cl.scene2, cl.filename, cl.one_mapset),
                !.flipped = get_name_band(cl.scene1, cl.filename,
                                          ~cl.one_mapset)]
    /\ UNCHANGED <<so, mainVars>>

SpecClassify == InitClassify /\ [][Classify]_vars

-----------------------------------------------------------------------------
(* the ordering of lines 517-521 on its own *)

\* the most files a listed directory holds
MaxFiles == 3

SortFilenames ==
    {<<"a", "_", "B", "1">> \o GEOTIFF_EXTENSION,
     <<"a", "_", "B", "2">> \o GEOTIFF_EXTENSION,
     <<"a", "_", "B", "1", "0">> \o GEOTIFF_EXTENSION,
     <<"a", "_", "B", "1", "1">> \o GEOTIFF_EXTENSION,
     <<"a", "_", "B", "Q", "A">> \o GEOTIFF_EXTENSION,
     <<"a", "_", "B", "6", "_", "V", "C", "I", "D", "_", "1">>
         \o GEOTIFF_EXTENSION,
     <<"a", "_", "B", "6", "_", "V", "C", "I", "D", "_", "2">>
         \o GEOTIFF_EXTENSION,
     <<"a", "_", "M", "T", "L", ".", "t", "x", "t">>}

InitSort ==
    /\ MainIdle
    /\ cl = [pc |-> "off"]
    /\ \E S \in SUBSET SortFilenames :
          /\ Cardinality(S) <= MaxFiles
          /\ \E listing \in Listings(S) :
                so = [pc |-> "listdir", listing |-> listing,
                      filenames |-> <<>>, visited |-> <<>>]

\* filenames = sorted(os.listdir(scene), key=...), lines 517-520
SortListing ==
    /\ so.pc = "listdir"
    /\ so' = [so EXCEPT !.pc = "for", !.filenames = sorted(so.listing)]
    /\ UNCHANGED <<cl, mainVars>>

\* for filename in filenames, line 521: the next file is visited
VisitNext ==
    /\ so.pc = "for"
    /\ so.filenames # <<>>
    /\ so' = [so EXCEPT !.filenames = Tail(so.filenames),
                        !.visited = Append(so.visited, Head(so.filenames))]
    /\ UNCHANGED <<cl, mainVars>>

NextSort == SortListing \/ VisitNext

SpecSort == InitSort /\ [][NextSort]_vars

-----------------------------------------------------------------------------
(* What the claims speak of *)

ImportOps == {"r.in.gdal", "r.external"}

\* workspace creation, Import Executor, stamp and manifest copy
MutatingOps == {"g.mapset", "r.timestamp", "shutil.copy"} \cup ImportOps

\* the calls a step adds to the log
NewCalls == SubSeq(log', Len(log) + 1, Len(log'))

\* how many of the calls are one of ops
CountOps(calls, ops) == Cardinality({i \in 1..Len(calls) : calls[i].op \in ops})

\* the workspace a scene is to land in: the one named after the scene, or
\* the shared one
TargetWorkspace == IF flags.one THEN options.mapset ELSE Basename(scene)

\* the loop of import_geotiffs is about to handle a candidate image file
\* that classifies, in a run that imports
AtCandidate ==
    /\ pc = "band_loop"
    /\ todo # <<>>
    /\ IsGeoTiff(Head(todo))
    /\ get_name_band(scene, Head(todo), flags.one).outcome = "ok"
    /\ ~flags.l
    /\ ~flags.t

\* the output band name of that file, and whether the workspace holds it
CandidateName == get_name_band(scene, Head(todo), flags.one).name

CandidateExists ==
    \E r \in rasters : r.ws = TargetWorkspace /\ r.name = CandidateName

\* the call is an import of a file of the directory d
ImportsFrom(call, d) ==
    /\ call.op \in ImportOps
    /\ Len(call.arg) > Len(d)
    /\ SubSeq(call.arg, 1, Len(d) + 1) = d \o <<"/">>

\* C1: a run with flag l (list-only), whatever its scene sources and other
\* flags, never creates or enters a Mapset, never calls r.in.gdal or
\* r.external, never calls r.timestamp and never copies a manifest
C1_ListOnlyMakesNoMutatingCall ==
    flags.l => /\ CountOps(log, MutatingOps) = 0
               /\ current_mapset = MAPSET

\* a list-only run over a pool and explicit scenes has listed them all
C1_Witness ==
    /\ flags.l
    /\ pc = "done"
    /\ options.pool # <<>>
    /\ Len(Split(options.scene, ",")) = 2

\* C3: in a run that imports with flag s, a band that exists in the target
\* workspace is not imported; it is stamped once if flag f is set (unless
\* set_timestamp raises before it reaches r.timestamp) and not at all if
\* flag f is unset; and the loop goes on with the next file
C3_ExistingBandSkipped ==
    [][(AtCandidate /\ flags.s /\ CandidateExists) =>
          /\ CountOps(NewCalls, ImportOps) = 0
          /\ CountOps(NewCalls, {"r.timestamp"})
                = (IF flags.f /\ err' = "none" THEN 1 ELSE 0)
          /\ \A i \in 1..Len(NewCalls) :
                NewCalls[i].op = "r.timestamp" =>
                    /\ NewCalls[i].ws = TargetWorkspace
                    /\ NewCalls[i].name = CandidateName
          /\ ~flags.f => err' = "none"
          /\ err' = "none" => pc' = "band_loop" /\ todo' = Tail(todo)
      ]_vars

\* every band of a batch existed and was stamped again, none imported
C3_Witness ==
    /\ flags.s
    /\ flags.f
    /\ pc = "done"
    /\ CountOps(log, {"r.timestamp"}) >= 2
    /\ CountOps(log, ImportOps) = 0

\* C4: in a run that imports with flag s, a band that does not exist in
\* the target workspace ends the scene with the fatal error of line 574,
\* and no file of that scene has been handed to r.in.gdal or r.external
C4_MissingBandIsFatal ==
    [][(AtCandidate /\ flags.s /\ ~CandidateExists) =>
          /\ pc' = "crashed"
          /\ err' = "fatal: skip flag"
          /\ \A i \in 1..Len(log') : ~ImportsFrom(log'[i], scene)
      ]_vars

\* the fatal error came after an earlier, existing band of the scene was
\* stamped again
C4_Witness ==
    /\ err = "fatal: skip flag"
    /\ \E i \in 1..Len(log) :
          log[i].op = "r.timestamp" /\ log[i].ws = TargetWorkspace

\* C5: in a run that imports without flag s, every candidate image file
\* gets exactly one r.in.gdal (or, with flag e, r.external) call; when that
\* call returns, exactly one r.timestamp call for the same output name
\* follows it before the loop moves to the next file; whether the band
\* existed makes no difference
C5_ImportThenStamp ==
    [][(AtCandidate /\ ~flags.s) =>
          LET n == Len(NewCalls)
              imp == [op |-> IF flags.e THEN "r.external" ELSE "r.in.gdal",
                      ws |-> TargetWorkspace, name |-> CandidateName,
                      arg |-> PathJoin(scene, Head(todo))]
          IN  /\ CountOps(NewCalls, ImportOps) = 1
              /\ IF err' = "none"
                 THEN /\ n >= 2
                      /\ NewCalls[n - 1] = imp
                      /\ NewCalls[n].op = "r.timestamp"
                      /\ NewCalls[n].ws = imp.ws
                      /\ NewCalls[n].name = imp.name
                      /\ CountOps(NewCalls, {"r.timestamp"}) = 1
                      /\ pc' = "band_loop"
                      /\ todo' = Tail(todo)
                 ELSE /\ NewCalls[n] = imp
                      /\ CountOps(NewCalls, {"r.timestamp"}) = 0
                      /\ pc' = "crashed"
      ]_vars

\* a band that an earlier run had imported was imported and stamped again
C5_Witness ==
    /\ ~flags.s
    /\ ~flags.l
    /\ ~flags.t
    /\ \E i \in 1..(Len(log) - 1) :
          /\ log[i].op \in ImportOps
          /\ log[i + 1].op = "r.timestamp"
          /\ log[i + 1].name = log[i].name
          /\ \E m \in cell_misc :
                m.ws = log[i].ws /\ m.src = <<"o", "l", "d">>

\* C2: a run with flag n (count-only), with a pool and with or without
\* explicit scenes, never creates or enters a Mapset, never calls r.in.gdal
\* or r.external, never calls r.timestamp and never copies a manifest
C2_CountOnlyMakesNoMutatingCall ==
    flags.n => /\ CountOps(log, MutatingOps) = 0
               /\ current_mapset = MAPSET

\* C6: an import error on a band of scene k does not end the batch: the
\* run never stops on it while scenes k+1..N are still waiting
C6_ImportErrorKeepsBatchGoing ==
    (pc = "crashed" /\ err = "CalledModuleError") => queue = <<>>

\* C7: a manifest is copied only by a run that imports, only once the
\* loop over the scene's files is through, and once; a manifest found in
\* the target workspace's cell_misc makes the copy be skipped, and no stored
\* manifest is ever replaced
C7_ManifestCopiedOnceNeverOverwritten ==
    [][/\ CountOps(NewCalls, {"shutil.copy"}) > 0 =>
             /\ ~flags.l
             /\ ~flags.t
             /\ pc = "band_loop"
             /\ todo = <<>>
             /\ CountOps(NewCalls, {"shutil.copy"}) = 1
       /\ (\E m \in cell_misc : m.ws = TargetWorkspace) =>
             CountOps(NewCalls, {"shutil.copy"}) = 0
       /\ \A m \in cell_misc : m \in cell_misc'
      ]_vars

\* the last '_'-delimited token of a filename's stem
LastToken(filename) ==
    Split(SplitextRoot(filename), "_")[Len(Split(SplitextRoot(filename), "_"))]

\* the filename ends in _B<digits>.<ext>: it encodes a numeric band number
HasBandNumber(filename) ==
    /\ Len(LastToken(filename)) >= 2
    /\ LastToken(filename)[1] = "B"
    /\ IsDigit(Tail(LastToken(filename)))

BandNumber(filename) == IntOf(Tail(LastToken(filename)))

SetOf(seq) == {seq[i] : i \in 1..Len(seq)}

\* C8: the files of a scene are visited in ascending band number where the
\* filename carries one, every other file after all of those and in
\* filename order; and the order of visits is the same for every order in
\* which the directory may be listed
C8_BandOrder ==
    /\ \A i \in 1..Len(so.visited) : \A j \in 1..Len(so.visited) :
          i < j =>
            /\ (HasBandNumber(so.visited[i]) /\ HasBandNumber(so.visited[j]))
                  => BandNumber(so.visited[i]) <= BandNumber(so.visited[j])
            /\ ~HasBandNumber(so.visited[i])
                  => /\ ~HasBandNumber(so.visited[j])
                     /\ StrLess(so.visited[i], so.visited[j])
    /\ so.pc = "for" =>
          \A l \in Listings(SetOf(so.listing)) :
              so.visited \o so.filenames = sorted(l)

\* band 2 was visited before band 10 and the quality band last, from a
\* listing that had them in another order
C8_Witness ==
    /\ so.pc = "for"
    /\ so.visited = <<<<"a", "_", "B", "2">> \o GEOTIFF_EXTENSION,
                      <<"a", "_", "B", "1", "0">> \o GEOTIFF_EXTENSION,
                      <<"a", "_", "B", "Q", "A">> \o GEOTIFF_EXTENSION>>
    /\ so.listing[1] = <<"a", "_", "B", "Q", "A">> \o GEOTIFF_EXTENSION
    /\ so.listing[2] = <<"a", "_", "B", "1", "0">> \o GEOTIFF_EXTENSION

\* the name of a result without the scene prefix of one-Mapset mode
Unprefixed(r, scene_path) ==
    IF r.outcome = "ok" /\ cl.one_mapset
    THEN SubSeq(r.name, Len(Basename(scene_path)) + 2, Len(r.name))
    ELSE r.name

\* C9: the same filename under any two scene directories gets the same
\* outcome, the same band label and, but for the scene prefix, the same
\* name; and one_mapset does not change the band label
C9_FilenameAloneDecides ==
    cl.pc = "returned" =>
        /\ cl.r1.outcome = cl.r2.outcome
        /\ cl.r1.band = cl.r2.band
        /\ Unprefixed(cl.r1, cl.scene1) = Unprefixed(cl.r2, cl.scene2)
        /\ cl.flipped.outcome = cl.r1.outcome
        /\ cl.flipped.band = cl.r1.band

\* the filename holds none of the markers QA, VCID
NoMarker(filename) ==
    \A i \in 1..Len(IMAGE_QUALITY_STRINGS) :
        ~Contains(IMAGE_QUALITY_STRINGS[i], filename)

\* the band number the three-way rule gives a token, -1 where it gives none:
\* B0N is N, BNM with M not 0 is NM, B and one digit is that digit
RuleBand(token) ==
    IF Len(token) = 3 /\ token[1] = "B" /\ token[2] = "0"
          /\ IsDigitChar(token[3])
    THEN DigitValue(token[3])
    ELSE IF Len(token) = 3 /\ token[1] = "B" /\ IsDigitChar(token[2])
               /\ IsDigitChar(token[3]) /\ token[3] # "0"
    THEN 10 * DigitValue(token[2]) + DigitValue(token[3])
    ELSE IF Len(token) = 2 /\ token[1] = "B" /\ IsDigitChar(token[2])
    THEN DigitValue(token[2])
    ELSE -1

\* C10: a filename without marker is named by the last token of its stem,
\* and a token B0N, BNM (M not 0) or B<digit> gets the band number of the
\* three-way rule
C10_LastTokenAndThreeWayRule ==
    (cl.pc = "returned" /\ NoMarker(cl.filename)
        /\ RuleBand(LastToken(cl.filename)) >= 0) =>
        /\ cl.r1.outcome = "ok"
        /\ Unprefixed(cl.r1, cl.scene1) = LastToken(cl.filename)
        /\ cl.r1.band = IntBand(RuleBand(LastToken(cl.filename)))

\* the manifest of the scene directory d has no line with a date key, or
\* none with a time key
LacksKeyLine(d) ==
    \/ \A i \in 1..Len(ManifestLines(d)) :
          ~HasKey(DATE_STRINGS, ManifestLines(d)[i])
    \/ \A i \in 1..Len(ManifestLines(d)) :
          ~HasKey(TIME_STRINGS, ManifestLines(d)[i])

DateTimeKeys == {"date", "hours", "minutes", "seconds", "timezone"}

\* C11: for a manifest without a date-key line or without a time-key line
\* get_timestamp fails with an error and returns nothing, the import of
\* the scene ends there; and no r.timestamp call is made while the
\* timestamp lacks one of date, hours, minutes, seconds, timezone
C11_PartialManifestFails ==
    [][/\ (pc = "import_geotiffs" /\ options.timestamp = <<>>
            /\ Metafiles(scene) # {} /\ LacksKeyLine(Resolve(scene))) =>
             /\ get_timestamp(scene).error # "none"
             /\ pc' = "crashed"
       /\ CountOps(NewCalls, {"r.timestamp"}) > 0 =>
             DateTimeKeys \subseteq timestamp.keys
      ]_vars

\* the exceptions that reading, printing or rendering a timestamp raises
TimestampErrors ==
    {"TypeError", "KeyError", "IndexError", "ValueError", "UnboundLocalError"}

\* C12: with a timestamp= option no import of a scene ends on an error of
\* the timestamp's handling, and every r.timestamp call carries exactly the
\* string of the option
C12_ExplicitTimestampVerbatim ==
    options.timestamp # <<>> =>
        /\ err \notin TimestampErrors
        /\ \A i \in 1..Len(log) :
              log[i].op = "r.timestamp" => log[i].arg = options.timestamp

\* the stamp the code renders for DATE_ACQUIRED = 2018-01-01 and
\* SCENE_CENTER_TIME = "10:11:12.5Z", and the one expected of it
StampAsRendered ==
    <<"0", "1", " ", "j", "a", "n", " ", "2", "0", "1", "8", " ",
      "1", "0", ":", "1", "1", ":", "1", "2", ".", "5">>

StampAsExpected ==
    <<"1", " ", "j", "a", "n", " ", "2", "0", "1", "8", " ",
      "1", "0", ":", "1", "1", ":", "1", "2", ".", "5", "0">>

\* C13 as amended: every band of the scene whose manifest declares
\* DATE_ACQUIRED = 2018-01-01 and SCENE_CENTER_TIME = "10:11:12.5Z" is
\* stamped "01 jan 2018 10:11:12.5": the day with the two digits of the
\* manifest, the month from the table, the year, then HH:MM:SS with the
\* seconds' fraction as the manifest writes it
C13_StampedAsRendered ==
    [][(scene = SceneA /\ options.timestamp = <<>>) =>
          \A i \in 1..Len(NewCalls) :
             NewCalls[i].op = "r.timestamp" => NewCalls[i].arg = StampAsRendered
      ]_vars

\* a band of SceneA was imported and stamped
C13_Witness ==
    \E i \in 1..Len(log) :
        /\ i > 1
        /\ log[i].op = "r.timestamp"
        /\ log[i].arg = StampAsRendered
        /\ ImportsFrom(log[i - 1], SceneA)
        /\ log[i - 1].name = log[i].name

\* C13: every band of that scene is stamped "1 jan 2018 10:11:12.50"
C13_StampedAsExpected ==
    [][(scene = SceneA /\ options.timestamp = <<>>) =>
          \A i \in 1..Len(NewCalls) :
             NewCalls[i].op = "r.timestamp" => NewCalls[i].arg = StampAsExpected
      ]_vars

\* the path names a .tar.gz archive
IsArchivePath(path) ==
    /\ Len(path) >= Len(DotTarGz)
    /\ SubSeq(path, Len(path) - Len(DotTarGz) + 1, Len(path)) = DotTarGz

\* the scene= source the scene loop of main is at
CurrentSource ==
    Split(options.scene, ",")[Len(Split(options.scene, ",")) - Len(queue)]

\* C14: when import_geotiffs is called for an explicit source that is a
\* .tar.gz archive, extract_tgz has been called on that archive and
\* import_geotiffs is given the directory it unpacked, not the archive
C14_ArchiveExtractedFirst ==
    (pc = "import_geotiffs" /\ loop = "scene" /\ IsArchivePath(CurrentSource)) =>
        /\ scene # CurrentSource
        /\ \E i \in 1..Len(log) :
              /\ log[i].op = "tarfile.extractall"
              /\ log[i].name = CurrentSource
              /\ log[i].arg = Resolve(scene)

\* C15: with flag r the cleanup removes nothing but the directory that
\* extract_tgz unpacked for the scene just imported, and it does not fail
C15_CleanupOnlyRemovesExtracted ==
    [][/\ \A d \in dirs \ dirs' :
             /\ d = Resolve(scene)
             /\ \E i \in 1..Len(log) :
                   log[i].op = "tarfile.extractall" /\ log[i].arg = d
       /\ pc = "cleanup" => pc' = "scene_loop"
      ]_vars

\* the directories directly inside the pool directory
ImmediateSubdirs(pool) ==
    {d \in dirs : Len(d) > Len(pool) /\ RFindChar("/", d) = Len(pool) + 1
                     /\ SubSeq(d, 1, Len(pool)) = pool}

\* C16: every scene the pool loop hands to import_geotiffs is a directory
\* directly inside the pool, and the number flag n reports is the number of
\* those directories
C16_PoolScenesAreImmediateSubdirs ==
    /\ (pc = "import_geotiffs" /\ loop = "pool") =>
           scene \in ImmediateSubdirs(options.pool)
    /\ \A i \in 1..Len(log) :
           (log[i].op = "g.message" /\ log[i].name = <<"n">>) =>
               log[i].arg = StrOfNat(Cardinality(ImmediateSubdirs(options.pool)))

\* the record expected for the scene directory d: its identifier, a pipe,
\* then date, time and timezone offset
ExpectedRecord(d) ==
    Basename(d) \o <<"|">>
        \o (IF options.timestamp # <<>> THEN options.timestamp
            ELSE JoinWith(<<" ">>,
                    <<get_timestamp(d).date,
                      JoinWith(<<":">>, <<get_timestamp(d).hours,
                                          get_timestamp(d).minutes,
                                          get_timestamp(d).seconds>>),
                      get_timestamp(d).timezone>>))

\* the records emitted so far
Records == {i \in 1..Len(log) : log[i].op = "g.message" /\ log[i].name = <<"t">>}

\* the number of scenes the run is given
BatchSize ==
    (IF options.pool # <<>> /\ ~flags.n
     THEN Cardinality(ImmediateSubdirs(options.pool)) ELSE 0)
    + (IF options.scene # <<>> THEN Len(Split(options.scene, ",")) ELSE 0)

\* C17: a run with flag t creates or enters no Mapset, imports, stamps and
\* copies nothing; every record it emits is identifier|date time timezone
\* of a scene, and when it ends it has emitted one record per scene given
C17_OneRecordPerSceneNoMutation ==
    flags.t =>
        /\ CountOps(log, MutatingOps) = 0
        /\ current_mapset = MAPSET
        /\ \A i \in Records : \E d \in SceneDirs : log[i].arg = ExpectedRecord(d)
        /\ pc \in {"done", "crashed"} => Cardinality(Records) = BatchSize

\* the band numbers of the band= option
BandFilter == {IntOf(Split(options.band, ",")[i]) :
                  i \in 1..Len(Split(options.band, ","))}

\* the output names of the image files of the scene directory d whose band
\* number is in the filter
FilteredNames(d) ==
    {get_name_band(d, f, flags.one).name :
        f \in {x \in ListDir(d) :
                  /\ IsGeoTiff(x)
                  /\ get_name_band(d, x, flags.one).outcome = "ok"
                  /\ get_name_band(d, x, flags.one).band.int
                  /\ get_name_band(d, x, flags.one).band.n \in BandFilter}}

\* C18: with a band= option only the image files whose band number is in
\* it are imported and stamped
C18_OnlyFilteredBandsImported ==
    [][options.band # <<>> =>
          \A i \in 1..Len(NewCalls) :
             NewCalls[i].op \in ImportOps \cup {"r.timestamp"} =>
                 NewCalls[i].name \in FilteredNames(scene)
      ]_vars

\* ---------------------------------------------------------------------
\* C19: in shared-workspace mode every imported raster is named
\* sceneId_name, the scene identifier being the one the target workspace
\* would otherwise be named after, so that no import of one scene
\* replaces a raster that came from another scene; in per-scene mode the
\* canonical name is used without a prefix
SceneId == Basename(scene)

CanonicalName(filename) == get_name_band(scene, filename, FALSE).name

\* the raster came from scene directory d, in this run or an earlier one
OfScene(r, d) == Under(r.src, d) \/ r \in SceneRasters(d, flags.one)

C19_SharedWorkspacePrefix ==
    [][\A i \in 1..Len(NewCalls) :
         NewCalls[i].op \in ImportOps =>
           /\ NewCalls[i].name =
                  IF flags.one
                  THEN SceneId \o <<"_">> \o CanonicalName(Head(todo))
                  ELSE CanonicalName(Head(todo))
           /\ \A d \in SceneDirs \ {scene} : \A r \in rasters :
                  OfScene(r, d) => r \in rasters']_vars

SecondBandOf(d) == Basename(d) \o <<"_", "B", "2", ".", "T", "I", "F">>

C19_Witness ==
    /\ flags.one
    /\ \E ra, rb \in rasters :
          /\ ra.ws = rb.ws
          /\ ra.src = PathJoin(SceneA, SecondBandOf(SceneA))
          /\ rb.src = PathJoin(SceneB, SecondBandOf(SceneB))
          /\ ra.name = Basename(SceneA) \o <<"_">>
                \o get_name_band(SceneA, SecondBandOf(SceneA), FALSE).name
          /\ rb.name = Basename(SceneB) \o <<"_">>
                \o get_name_band(SceneB, SecondBandOf(SceneB), FALSE).name

\* ---------------------------------------------------------------------
\* C20: every existence query, import and timestamp call made for a
\* scene goes to that scene's target workspace, a call ensuring that
\* workspace precedes them in the log, and a scene directory without any
\* candidate image leads to no workspace being created or entered
RasterOps == {"g.findfile", "r.timestamp"} \cup ImportOps

EnsuredBefore(n) ==
    \E j \in 1..(n - 1) :
        log'[j].op = "g.mapset" /\ log'[j].ws = TargetWorkspace

NoCandidate == \A f \in ListDir(scene) : ~IsGeoTiff(f)

C20_CallsGoToTargetWorkspace ==
    [][/\ \A i \in 1..Len(NewCalls) :
            NewCalls[i].op \in RasterOps =>
              /\ NewCalls[i].ws = TargetWorkspace
              /\ EnsuredBefore(Len(log) + i)
       /\ (pc \in {"import_geotiffs", "band_loop"} /\ NoCandidate) =>
              /\ \A i \in 1..Len(NewCalls) : NewCalls[i].op # "g.mapset"
              /\ mapsets' = mapsets
              /\ current_mapset' = current_mapset]_vars

C20_Witness ==
    /\ disk = "nobands"
    /\ ~flags.one
    /\ scene = SceneB
    /\ pc = "band_loop"
    /\ todo = <<>>
    /\ \A i \in 1..Len(log) : log[i].ws # Basename(SceneB)
    /\ \E i, j \in 1..Len(log) :
          /\ j < i
          /\ log[j].op = "g.mapset" /\ log[j].ws = Basename(SceneA)
          /\ log[i].op \in ImportOps /\ log[i].ws = Basename(SceneA)

\* ---------------------------------------------------------------------
\* C21: the fatal error of skip mode against a band that does not exist
\* is a precondition of the scene, tested before any of its bands is
\* handled: when a scene ends with that error, the step that raises it
\* creates and enters no workspace, and no r.timestamp call for a band of
\* that scene (a forced restamp of an earlier, existing band included) is
\* in the log
SkipFatal == "fatal: skip flag"

\* the call stamps a band of the scene at hand
StampsBandOfScene(call) ==
    /\ call.op = "r.timestamp"
    /\ call.ws = TargetWorkspace
    /\ \E f \in ListDir(scene) :
          IsGeoTiff(f) /\ call.name = get_name_band(scene, f, flags.one).name

C21_NoWorkspaceEnsured ==
    /\ \A i \in 1..Len(NewCalls) : NewCalls[i].op # "g.mapset"
    /\ mapsets' = mapsets
    /\ current_mapset' = current_mapset

C21_NoStampBefore ==
    \A i \in 1..Len(log') : ~StampsBandOfScene(log'[i])

C21_SkipCheckBeforeAnyBand ==
    [][(err = "none" /\ err' = SkipFatal) =>
          C21_NoWorkspaceEnsured /\ C21_NoStampBefore]_vars

====
